---- MODULE Spec2Model ----
(***************************************************************************)
(* SessionManager of tijs/atproto-sessions (src/src/sessions.ts).          *)
(*                                                                         *)
(* Text is a sequence of characters; a character is a record [ch |-> c].   *)
(* The opaque body of a sealed envelope is one character of its own, which *)
(* carries what the sealing primitive put under the seal.                  *)
(***************************************************************************)
EXTENDS Integers, Sequences, FiniteSets, TLC

VARIABLES manager, ctor, now, jar, last, inflight

vars == <<manager, ctor, now, jar, last, inflight>>

----------------------------------------------------------------------------
(* Bounds of the model *)

\* the clock is read in milliseconds; it runs up to MaxSeconds seconds
MaxSeconds == 1
\* number of issued headers and tokens the client side keeps
MaxIssued == 2

(* Program constants *)

DEFAULT_SESSION_TTL == 604800
MIN_SECRET_LENGTH == 32
\* sealData's own default ttl (seconds), used when the caller passes none
DefaultSealTtl == 1209600
\* milliseconds per second: Date.now() is in ms, ttl in s
MsPerSecond == 1000

----------------------------------------------------------------------------
(* Text *)

C(c) == [ch |-> c]

Str(s) == [i \in 1..Len(s) |-> C(s[i])]

DEFAULT_COOKIE_NAME == Str(<<"s", "i", "d">>)

\* String.prototype.startsWith
StartsWith(s, p) ==
    /\ Len(p) <= Len(s)
    /\ SubSeq(s, 1, Len(p)) = p

\* String.prototype.includes
Includes(s, sub) ==
    \E i \in 1..(Len(s) - Len(sub) + 1) : SubSeq(s, i, i + Len(sub) - 1) = sub

\* String.prototype.substring(n)
Substring(s, n) == SubSeq(s, n + 1, Len(s))

IsSpace(c) == c = C(" ")

\* String.prototype.trim
RECURSIVE TrimLeft(_)
TrimLeft(s) ==
    IF s # <<>> /\ IsSpace(Head(s)) THEN TrimLeft(Tail(s)) ELSE s

RECURSIVE TrimRight(_)
TrimRight(s) ==
    IF s # <<>> /\ IsSpace(s[Len(s)]) THEN TrimRight(SubSeq(s, 1, Len(s) - 1)) ELSE s

Trim(s) == TrimRight(TrimLeft(s))

\* index of the first occurrence of character c in s, 0 when there is none
RECURSIVE IndexOf(_, _, _)
IndexOf(s, c, from) ==
    IF from > Len(s) THEN 0
    ELSE IF s[from] = c THEN from
    ELSE IndexOf(s, c, from + 1)

\* String.prototype.split(sep) for a one-character separator
RECURSIVE Split(_, _)
Split(s, sep) ==
    LET i == IndexOf(s, sep, 1)
    IN  IF i = 0 THEN <<s>>
        ELSE <<SubSeq(s, 1, i - 1)>> \o Split(SubSeq(s, i + 1, Len(s)), sep)

\* Array.prototype.map(c => c.trim())
MapTrim(parts) == [i \in 1..Len(parts) |-> Trim(parts[i])]

\* Array.prototype.find(c => c.startsWith(prefix)): the index of the first
\* element that starts with prefix, 0 when find returns undefined
RECURSIVE FindStartsWith(_, _, _)
FindStartsWith(parts, prefix, from) ==
    IF from > Len(parts) THEN 0
    ELSE IF StartsWith(parts[from], prefix) THEN from
    ELSE FindStartsWith(parts, prefix, from + 1)

----------------------------------------------------------------------------
(* URL encoding *)

HexDigits == {"0", "2", "3", "5", "B", "D"}

\* the characters encodeURIComponent escapes, with their escapes
Escapes ==
    { <<C("="), <<"3", "D">> >>, <<C(";"), <<"3", "B">> >>,
      <<C(" "), <<"2", "0">> >>, <<C("%"), <<"2", "5">> >> }

Reserved == { e[1] : e \in Escapes }

EscapeOf(c) == (CHOOSE e \in Escapes : e[1] = c)[2]

\* encodeURIComponent
RECURSIVE encodeURIComponent(_)
encodeURIComponent(s) ==
    IF s = <<>> THEN <<>>
    ELSE LET c == Head(s)
             e == IF c \in Reserved
                  THEN <<C("%"), C(EscapeOf(c)[1]), C(EscapeOf(c)[2])>>
                  ELSE <<c>>
         IN  e \o encodeURIComponent(Tail(s))

IsHex(c) == \E h \in HexDigits : c = C(h)

\* the character a %XY escape stands for
Unescape(x, y) ==
    IF \E e \in Escapes : e[2] = <<x.ch, y.ch>>
    THEN (CHOOSE e \in Escapes : e[2] = <<x.ch, y.ch>>)[1]
    ELSE [ch |-> "byte", hi |-> x.ch, lo |-> y.ch]

\* a % that is not followed by two hex digits makes decodeURIComponent throw
RECURSIVE Malformed(_)
Malformed(s) ==
    IF s = <<>> THEN FALSE
    ELSE IF Head(s) = C("%")
         THEN IF Len(s) >= 3 /\ IsHex(s[2]) /\ IsHex(s[3])
              THEN Malformed(SubSeq(s, 4, Len(s)))
              ELSE TRUE
         ELSE Malformed(Tail(s))

RECURSIVE DecodeText(_)
DecodeText(s) ==
    IF s = <<>> THEN <<>>
    ELSE IF Head(s) = C("%")
         THEN <<Unescape(s[2], s[3])>> \o DecodeText(SubSeq(s, 4, Len(s)))
         ELSE <<Head(s)>> \o DecodeText(Tail(s))

Return(v) == [kind |-> "return", value |-> v]
Throw(e) == [kind |-> "throw", error |-> e]
Threw(r) == r.kind = "throw"

Error(name, message) == [name |-> name, message |-> message]

\* decodeURIComponent: the decoded text, or a URIError
decodeURIComponent(s) ==
    IF Malformed(s) THEN Throw(Error("URIError", "URI malformed"))
    ELSE Return(DecodeText(s))

----------------------------------------------------------------------------
(* The sealing primitive (iron-session), as the manager sees it *)

\* the opaque body of an envelope: what was sealed, under which password,
\* and the time at which the seal expires
Body(data, password, exp) ==
    [ch |-> "sealed", data |-> data, password |-> password, exp |-> exp, mac |-> "ok"]

\* sealData(data, {password, ttl}) at clock reading t; `fails` is the
\* primitive's own failure
sealData(data, password, ttl, t, fails) ==
    IF fails THEN Throw(Error("Error", "seal failed"))
    ELSE Return(<<C("F"), C("*"), Body(data, password, t + ttl * MsPerSecond)>>)

\* an envelope that was sealed under `password`, is intact and has not expired
Genuine(seal, password, t) ==
    /\ Len(seal) = 3
    /\ seal[1] = C("F")
    /\ seal[2] = C("*")
    /\ seal[3].ch = "sealed"
    /\ seal[3].mac = "ok"
    /\ seal[3].password = password
    /\ t < seal[3].exp

\* the empty structure {} the primitive returns for a seal it rejects quietly
EmptyStructure == [f \in {} |-> 0]

\* unsealData(seal, {password}) at clock reading t. A seal that is not
\* genuine is rejected, either by returning {} or by throwing: `reject` is
\* the way the primitive takes.
unsealData(seal, password, t, reject) ==
    IF Genuine(seal, password, t) THEN Return(seal[3].data)
    ELSE IF reject = "empty" THEN Return(EmptyStructure)
    ELSE Throw(Error("Error", "Bad seal"))

RejectModes == {"empty", "throw"}

----------------------------------------------------------------------------
(* JavaScript values *)

Null == [null |-> TRUE]

Has(obj, field) == field \in DOMAIN obj

\* the did check as it would be if it only looked for the field
NoDidField(obj) == ~Has(obj, "did")

\* !obj?.did : the field is missing or the empty string
NoDid(obj) == ~Has(obj, "did") \/ obj.did = ""

\* new Date(v).toISOString() throws RangeError on an invalid date
toISOString(obj) ==
    IF Has(obj, "createdAt") THEN Return("iso")
    ELSE Throw(Error("RangeError", "Invalid time value"))

----------------------------------------------------------------------------
(* SessionManager *)

NoManager == [exists |-> FALSE]

\* the constructor as it would be with <= for < in the length check
constructorOffByOne(config) ==
    IF ~Has(config, "cookieSecret") \/ config.cookieSecret = <<>>
    THEN Throw(Error("ConfigurationError", "cookieSecret is required"))
    ELSE IF Len(config.cookieSecret) <= MIN_SECRET_LENGTH
    THEN Throw(Error("ConfigurationError", "cookieSecret must be at least 32 characters"))
    ELSE Return([exists |-> TRUE,
                 cookieSecret |-> config.cookieSecret,
                 cookieName |-> IF Has(config, "cookieName") THEN config.cookieName
                                ELSE DEFAULT_COOKIE_NAME,
                 sessionTtl |-> IF Has(config, "sessionTtl") THEN config.sessionTtl
                                ELSE DEFAULT_SESSION_TTL])

\* the constructor: the new manager, or a ConfigurationError
\* the constructor as it would be with a default TTL of one day
constructorDefaultOneDay(config) ==
    IF ~Has(config, "cookieSecret") \/ config.cookieSecret = <<>>
    THEN Throw(Error("ConfigurationError", "cookieSecret is required"))
    ELSE IF Len(config.cookieSecret) < MIN_SECRET_LENGTH
    THEN Throw(Error("ConfigurationError", "cookieSecret must be at least 32 characters"))
    ELSE Return([exists |-> TRUE,
                 cookieSecret |-> config.cookieSecret,
                 cookieName |-> IF Has(config, "cookieName") THEN config.cookieName
                                ELSE DEFAULT_COOKIE_NAME,
                 sessionTtl |-> IF Has(config, "sessionTtl") THEN config.sessionTtl
                                ELSE DEFAULT_SESSION_TTL \div 7])

constructor(config) ==
    IF ~Has(config, "cookieSecret") \/ config.cookieSecret = <<>>
    THEN Throw(Error("ConfigurationError", "cookieSecret is required"))
    ELSE IF Len(config.cookieSecret) < MIN_SECRET_LENGTH
    THEN Throw(Error("ConfigurationError", "cookieSecret must be at least 32 characters"))
    ELSE Return([exists |-> TRUE,
                 cookieSecret |-> config.cookieSecret,
                 cookieName |-> IF Has(config, "cookieName") THEN config.cookieName
                                ELSE DEFAULT_COOKIE_NAME,
                 sessionTtl |-> IF Has(config, "sessionTtl") THEN config.sessionTtl
                                ELSE DEFAULT_SESSION_TTL])

\* the attributes every session cookie is set with, up to Max-Age=
Attributes ==
    <<C(";"), C(" "), C("Path=/"), C(";"), C(" "), C("HttpOnly"), C(";"), C(" "),
      C("SameSite=Lax"), C(";"), C(" "), C("Secure"), C(";"), C(" "), C("Max-Age=")>>

Number(n) == [ch |-> "number", n |-> n]

\* one call of a collaborator, as it appears in an operation's trace
Call(fn, arg, completion) == [fn |-> fn, arg |-> arg, completion |-> completion]

\* createSession as it would be if it caught a failure of sealData and
\* returned a header without value
createSessionSwallowing(m, data, t, sealFails) ==
    LET sealedSession == sealData(data, m.cookieSecret, m.sessionTtl, t, sealFails)
        calls == <<Call("sealData", [data |-> data, ttl |-> m.sessionTtl], sealedSession)>>
    IN  IF Threw(sealedSession)
        THEN [completion |-> Return(m.cookieName \o <<C("=")>>
                                    \o Attributes \o <<Number(m.sessionTtl)>>),
              calls |-> calls]
        ELSE [completion |->
                  Return(m.cookieName \o <<C("=")>>
                         \o encodeURIComponent(sealedSession.value)
                         \o Attributes \o <<Number(m.sessionTtl)>>),
              calls |-> calls]

\* createSession taking the TTL for milliseconds when it seals
createSessionTtlInMilliseconds(m, data, t, sealFails) ==
    LET sealedSession ==
            IF sealFails THEN Throw(Error("Error", "seal failed"))
            ELSE Return(<<C("F"), C("*"), Body(data, m.cookieSecret, t + m.sessionTtl)>>)
        calls == <<Call("sealData", [data |-> data, ttl |-> m.sessionTtl], sealedSession)>>
    IN  IF Threw(sealedSession)
        THEN [completion |-> sealedSession, calls |-> calls]
        ELSE [completion |->
                  Return(m.cookieName \o <<C("=")>>
                         \o encodeURIComponent(sealedSession.value)
                         \o Attributes \o <<Number(m.sessionTtl)>>),
              calls |-> calls]

\* createSession advertising the TTL in Max-Age but sealing without it
createSessionSealsWithoutTtl(m, data, t, sealFails) ==
    LET sealedSession == sealData(data, m.cookieSecret, DefaultSealTtl, t, sealFails)
        calls == <<Call("sealData", [data |-> data], sealedSession)>>
    IN  IF Threw(sealedSession)
        THEN [completion |-> sealedSession, calls |-> calls]
        ELSE [completion |->
                  Return(m.cookieName \o <<C("=")>>
                         \o encodeURIComponent(sealedSession.value)
                         \o Attributes \o <<Number(m.sessionTtl)>>),
              calls |-> calls]

\* createSession(data): [completion, calls]
createSession(m, data, t, sealFails) ==
    LET sealedSession == sealData(data, m.cookieSecret, m.sessionTtl, t, sealFails)
        calls == <<Call("sealData", [data |-> data, ttl |-> m.sessionTtl], sealedSession)>>
    IN  IF Threw(sealedSession)
        THEN [completion |-> sealedSession, calls |-> calls]
        ELSE [completion |->
                  Return(m.cookieName \o <<C("=")>>
                         \o encodeURIComponent(sealedSession.value)
                         \o Attributes \o <<Number(m.sessionTtl)>>),
              calls |-> calls]

\* a clearing header for the default cookie name, whatever was configured
getClearCookieHeaderDefaultName(m) ==
    DEFAULT_COOKIE_NAME \o <<C("=")>> \o Attributes \o <<Number(0)>>

\* getClearCookieHeader()
getClearCookieHeader(m) ==
    m.cookieName \o <<C("=")>> \o Attributes \o <<Number(0)>>

\* sealToken(data): [completion, calls]; no ttl is passed to sealData
sealToken(m, data, t, sealFails) ==
    LET sealed == sealData(data, m.cookieSecret, DefaultSealTtl, t, sealFails)
    IN  [completion |-> sealed,
         calls |-> <<Call("sealData", [data |-> data], sealed)>>]

SessionError(type, message) ==
    [data |-> Null, error |-> [type |-> type, message |-> message]]

SessionErrorDetails(type, message, details) ==
    [data |-> Null, error |-> [type |-> type, message |-> message, details |-> details]]

\* unsealToken(token): the unsealed data, or null when the token does not
\* unseal or carries no did
unsealToken(m, token, t, reject) ==
    LET data == unsealData(token, m.cookieSecret, t, reject)
        calls == <<Call("unsealData", token, data)>>
    IN  [completion |-> IF Threw(data) THEN Return(Null)
                        ELSE IF NoDid(data.value) THEN Return(Null)
                        ELSE Return(data.value),
         calls |-> calls]

BearerPrefix == Str(<<"B", "e", "a", "r", "e", "r", " ">>)

\* validateBearerToken(authHeader): a SessionResult without renewal header
validateBearerToken(m, authHeader, t, reject) ==
    IF ~StartsWith(authHeader, BearerPrefix)
    THEN [completion |-> Return(SessionError("INVALID_TOKEN",
              "Invalid authorization header format")),
          calls |-> <<>>]
    ELSE LET token == Substring(authHeader, 7)
             unsealed == unsealToken(m, token, t, reject)
         IN  IF unsealed.completion.value = Null
             THEN [completion |-> Return(SessionError("INVALID_TOKEN",
                       "Invalid or expired token")),
                   calls |-> unsealed.calls]
             ELSE [completion |-> Return([data |-> unsealed.completion.value]),
                   calls |-> unsealed.calls]

\* refreshBearerToken(authHeader): a new sealed token, or null
refreshBearerToken(m, authHeader, t, reject, sealFails) ==
    LET result == validateBearerToken(m, authHeader, t, reject)
        sealed == sealToken(m, result.completion.value.data, t, sealFails)
    IN  IF result.completion.value.data = Null
        THEN [completion |-> Return(Null), calls |-> result.calls]
        ELSE [completion |-> sealed.completion, calls |-> result.calls \o sealed.calls]

\* the pre-check of getSessionFromRequest: the Cookie header is there and
\* contains `<cookieName>=` somewhere
HasCookiePrefix(m, req) ==
    /\ req.present
    /\ Includes(req.cookie, m.cookieName \o <<C("=")>>)

\* the pairs of the Cookie header as they would be without .map(c => c.trim())
CookiesUntrimmed(req) == Split(req.cookie, C(";"))

\* the trimmed pairs of the Cookie header
Cookies(req) == MapTrim(Split(req.cookie, C(";")))

\* SessionCookie as it would be if the prefix left out the "="
SessionCookieByName(m, req) ==
    LET cookiePrefix == m.cookieName
        i == FindStartsWith(Cookies(req), cookiePrefix, 1)
    IN  IF i = 0 THEN [found |-> FALSE]
        ELSE [found |-> TRUE, value |-> Substring(Cookies(req)[i], Len(cookiePrefix))]

\* SessionCookie as it would be if the last pair of the name were taken
SessionCookieLastPair(m, req) ==
    LET cookiePrefix == m.cookieName \o <<C("=")>>
        named == { i \in 1..Len(Cookies(req)) : StartsWith(Cookies(req)[i], cookiePrefix) }
        i == CHOOSE k \in named : \A j \in named : j <= k
    IN  IF named = {} THEN [found |-> FALSE]
        ELSE [found |-> TRUE, value |-> Substring(Cookies(req)[i], Len(cookiePrefix))]

\* SessionCookie as it would be with split("=")[1] for the value
SessionCookieSplitOnEquals(m, req) ==
    LET cookiePrefix == m.cookieName \o <<C("=")>>
        i == FindStartsWith(Cookies(req), cookiePrefix, 1)
    IN  IF i = 0 THEN [found |-> FALSE]
        ELSE [found |-> TRUE, value |-> Split(Cookies(req)[i], C("="))[2]]

\* the value of the first pair that starts with `<cookieName>=`;
\* [found |-> FALSE] stands for undefined
SessionCookie(m, req) ==
    LET cookiePrefix == m.cookieName \o <<C("=")>>
        i == FindStartsWith(Cookies(req), cookiePrefix, 1)
    IN  IF i = 0 THEN [found |-> FALSE]
        ELSE [found |-> TRUE, value |-> Substring(Cookies(req)[i], Len(cookiePrefix))]

\* the test as it would be with sessionCookie === undefined
NoSessionCookieUndefinedOnly(sc) == ~sc.found

\* !sessionCookie : undefined or the empty string
NoSessionCookie(sc) == ~sc.found \/ sc.value = <<>>

\* Refresh as it would be if a failed reseal still handed the payload back
RefreshWithoutHeader(m, sessionData, t, sealFails, calls) ==
    LET iso == toISOString(sessionData)
        refreshedData == [did |-> sessionData.did,
                          createdAt |-> sessionData.createdAt,
                          lastAccessed |-> t]
        created == createSession(m, refreshedData, t, sealFails)
    IN  IF Threw(iso) THEN [completion |-> iso, calls |-> calls]
        ELSE IF Threw(created.completion)
        THEN [completion |-> Return([data |-> refreshedData]),
              calls |-> calls \o created.calls]
        ELSE [completion |-> Return([data |-> refreshedData,
                                     setCookieHeader |-> created.completion.value]),
              calls |-> calls \o created.calls]

\* Refresh as it would be if it stamped createdAt with the current time
RefreshResetsCreatedAt(m, sessionData, t, sealFails, calls) ==
    LET iso == toISOString(sessionData)
        refreshedData == [did |-> sessionData.did,
                          createdAt |-> t,
                          lastAccessed |-> t]
        created == createSession(m, refreshedData, t, sealFails)
    IN  IF Threw(iso) THEN [completion |-> iso, calls |-> calls]
        ELSE IF Threw(created.completion)
        THEN [completion |-> created.completion, calls |-> calls \o created.calls]
        ELSE [completion |-> Return([data |-> refreshedData,
                                     setCookieHeader |-> created.completion.value]),
              calls |-> calls \o created.calls]

\* Refresh as it would be if it passed the stored lastAccessed on
RefreshKeepsLastAccessed(m, sessionData, t, sealFails, calls) ==
    LET iso == toISOString(sessionData)
        refreshedData == [did |-> sessionData.did,
                          createdAt |-> sessionData.createdAt,
                          lastAccessed |-> sessionData.lastAccessed]
        created == createSession(m, refreshedData, t, sealFails)
    IN  IF Threw(iso) THEN [completion |-> iso, calls |-> calls]
        ELSE IF Threw(created.completion)
        THEN [completion |-> created.completion, calls |-> calls \o created.calls]
        ELSE [completion |-> Return([data |-> refreshedData,
                                     setCookieHeader |-> created.completion.value]),
              calls |-> calls \o created.calls]

\* the refresh of a session whose payload has a did: log, rebuild, reseal
Refresh(m, sessionData, t, sealFails, calls) ==
    LET iso == toISOString(sessionData)
        refreshedData == [did |-> sessionData.did,
                          createdAt |-> sessionData.createdAt,
                          lastAccessed |-> t]
        created == createSession(m, refreshedData, t, sealFails)
    IN  IF Threw(iso) THEN [completion |-> iso, calls |-> calls]
        ELSE IF Threw(created.completion)
        THEN [completion |-> created.completion, calls |-> calls \o created.calls]
        ELSE [completion |-> Return([data |-> refreshedData,
                                     setCookieHeader |-> created.completion.value]),
              calls |-> calls \o created.calls]

\* Unseal as it would be if a payload that failed to unseal were read anyway
UnsealTrustingPayload(m, sessionCookie, t, reject, sealFails) ==
    LET decoded == decodeURIComponent(sessionCookie)
        unsealed == unsealData(decoded.value, m.cookieSecret, t, reject)
        calls == <<Call("unsealData", decoded.value, unsealed)>>
        readable == Len(decoded.value) = 3 /\ decoded.value[3].ch = "sealed"
    IN  IF Threw(decoded)
        THEN [completion |-> Return(SessionErrorDetails("SESSION_EXPIRED",
                  "Session cookie is invalid or expired", decoded.error.message)),
              calls |-> <<>>]
        ELSE IF Threw(unsealed) /\ ~readable
        THEN [completion |-> Return(SessionErrorDetails("SESSION_EXPIRED",
                  "Session cookie is invalid or expired", unsealed.error.message)),
              calls |-> calls]
        ELSE IF Threw(unsealed)
        THEN Refresh(m, decoded.value[3].data, t, sealFails, calls)
        ELSE IF NoDid(unsealed.value)
        THEN [completion |-> Return(SessionError("INVALID_COOKIE",
                  "No DID found in session data")),
              calls |-> calls]
        ELSE Refresh(m, unsealed.value, t, sealFails, calls)

\* Unseal as it would be with decodeURIComponent ahead of the inner try: a
\* value that cannot be decoded escapes to the outer catch
UnsealDecodingOutsideTry(m, sessionCookie, t, reject, sealFails) ==
    LET decoded == decodeURIComponent(sessionCookie)
        unsealed == unsealData(decoded.value, m.cookieSecret, t, reject)
        calls == <<Call("unsealData", decoded.value, unsealed)>>
    IN  IF Threw(decoded)
        THEN [completion |-> decoded, calls |-> <<>>]
        ELSE IF Threw(unsealed)
        THEN [completion |-> Return(SessionErrorDetails("SESSION_EXPIRED",
                  "Session cookie is invalid or expired", unsealed.error.message)),
              calls |-> calls]
        ELSE IF NoDid(unsealed.value)
        THEN [completion |-> Return(SessionError("INVALID_COOKIE",
                  "No DID found in session data")),
              calls |-> calls]
        ELSE Refresh(m, unsealed.value, t, sealFails, calls)

\* Unseal as it would be if a failed unsealData were tried once more
UnsealRetrying(m, sessionCookie, t, reject, sealFails) ==
    LET decoded == decodeURIComponent(sessionCookie)
        unsealed == unsealData(decoded.value, m.cookieSecret, t, reject)
        calls == <<Call("unsealData", decoded.value, unsealed)>>
    IN  IF Threw(decoded)
        THEN [completion |-> Return(SessionErrorDetails("SESSION_EXPIRED",
                  "Session cookie is invalid or expired", decoded.error.message)),
              calls |-> <<>>]
        ELSE IF Threw(unsealed)
        THEN [completion |-> Return(SessionErrorDetails("SESSION_EXPIRED",
                  "Session cookie is invalid or expired", unsealed.error.message)),
              calls |-> calls \o calls]
        ELSE IF NoDid(unsealed.value)
        THEN [completion |-> Return(SessionError("INVALID_COOKIE",
                  "No DID found in session data")),
              calls |-> calls]
        ELSE Refresh(m, unsealed.value, t, sealFails, calls)

\* Unseal as it would be without the inner try: the failure escapes
UnsealWithoutTry(m, sessionCookie, t, reject, sealFails) ==
    LET decoded == decodeURIComponent(sessionCookie)
        unsealed == unsealData(decoded.value, m.cookieSecret, t, reject)
        calls == <<Call("unsealData", decoded.value, unsealed)>>
    IN  IF Threw(decoded) THEN [completion |-> decoded, calls |-> <<>>]
        ELSE IF Threw(unsealed) THEN [completion |-> unsealed, calls |-> calls]
        ELSE IF NoDid(unsealed.value)
        THEN [completion |-> Return(SessionError("INVALID_COOKIE",
                  "No DID found in session data")),
              calls |-> calls]
        ELSE Refresh(m, unsealed.value, t, sealFails, calls)

\* the inner try block: decode, unseal, classify
Unseal(m, sessionCookie, t, reject, sealFails) ==
    LET decoded == decodeURIComponent(sessionCookie)
        unsealed == unsealData(decoded.value, m.cookieSecret, t, reject)
        calls == <<Call("unsealData", decoded.value, unsealed)>>
    IN  IF Threw(decoded)
        THEN [completion |-> Return(SessionErrorDetails("SESSION_EXPIRED",
                  "Session cookie is invalid or expired", decoded.error.message)),
              calls |-> <<>>]
        ELSE IF Threw(unsealed)
        THEN [completion |-> Return(SessionErrorDetails("SESSION_EXPIRED",
                  "Session cookie is invalid or expired", unsealed.error.message)),
              calls |-> calls]
        ELSE IF NoDid(unsealed.value)
        THEN [completion |-> Return(SessionError("INVALID_COOKIE",
                  "No DID found in session data")),
              calls |-> calls]
        ELSE Refresh(m, unsealed.value, t, sealFails, calls)

\* the body as it would be with cookieHeader.includes for cookieHeader?.includes:
\* a request without Cookie header makes the call on null throw
TryGetSessionNoOptionalChain(m, req, t, reject, sealFails) ==
    IF ~req.present
    THEN [completion |-> Throw(Error("TypeError", "cookieHeader is null")),
          calls |-> <<>>]
    ELSE IF ~HasCookiePrefix(m, req)
    THEN [completion |-> Return(SessionError("NO_COOKIE",
              "No session cookie found in request")),
          calls |-> <<>>]
    ELSE IF NoSessionCookie(SessionCookie(m, req))
    THEN [completion |-> Return(SessionError("INVALID_COOKIE",
              "Session cookie could not be parsed")),
          calls |-> <<>>]
    ELSE Unseal(m, SessionCookie(m, req).value, t, reject, sealFails)

\* the body of the outer try block
TryGetSession(m, req, t, reject, sealFails) ==
    IF ~HasCookiePrefix(m, req)
    THEN [completion |-> Return(SessionError("NO_COOKIE",
              "No session cookie found in request")),
          calls |-> <<>>]
    ELSE IF NoSessionCookie(SessionCookie(m, req))
    THEN [completion |-> Return(SessionError("INVALID_COOKIE",
              "Session cookie could not be parsed")),
          calls |-> <<>>]
    ELSE Unseal(m, SessionCookie(m, req).value, t, reject, sealFails)

\* getSessionFromRequest as it would be without the outer try/catch
getSessionFromRequestNoCatch(m, req, t, reject, sealFails) ==
    TryGetSession(m, req, t, reject, sealFails)

\* getSessionFromRequest refusing every cookie once the session was cleared,
\* as a manager with a server-side logout record would
getSessionFromRequestRevoking(m, req, t, reject, sealFails) ==
    LET body == TryGetSession(m, req, t, reject, sealFails)
    IN  IF \E item \in jar : item.op = "getClearCookieHeader"
        THEN [completion |-> Return(SessionError("SESSION_EXPIRED", "Session was cleared")),
              calls |-> <<>>]
        ELSE IF Threw(body.completion)
        THEN [completion |-> Return(SessionErrorDetails("UNKNOWN",
                  body.completion.error.message, body.completion.error)),
              calls |-> body.calls]
        ELSE body

\* getSessionFromRequest(req): the outer catch turns whatever the body
\* threw into an UNKNOWN result
getSessionFromRequest(m, req, t, reject, sealFails) ==
    LET body == TryGetSession(m, req, t, reject, sealFails)
    IN  IF Threw(body.completion)
        THEN [completion |-> Return(SessionErrorDetails("UNKNOWN",
                  body.completion.error.message, body.completion.error)),
              calls |-> body.calls]
        ELSE body

----------------------------------------------------------------------------
(* Inputs *)

\* the custom TTL (seconds) a configuration may set
ShortTtl == 1

Secret(n, k) == [i \in 1..n |-> k]

SecretLengths == {0, 5, MIN_SECRET_LENGTH - 1, MIN_SECRET_LENGTH}

\* SessionConfig: no secret at all, a secret alone (cookie name and TTL by
\* default), or a secret with a custom cookie name and TTL
Configs ==
    {EmptyStructure}
    \cup { [cookieSecret |-> Secret(n, "k")] : n \in SecretLengths }
    \cup { [cookieSecret |-> Secret(n, "k"), cookieName |-> Str(<<"c">>),
            sessionTtl |-> ShortTtl] : n \in SecretLengths }

\* a secret no manager of the model is configured with
OtherSecret == Secret(MIN_SECRET_LENGTH, "o")

\* Date.now() readings the model visits
ClockReadings == {0, 1} \cup { s * MsPerSecond : s \in 1..MaxSeconds }

Dids == {"", "did:a", "did:b"}

\* CookieSessionData a caller passes to createSession at time t: a login
\* now, or the session of did:a begun at time 0
SessionPayloads(t) ==
    { [did |-> d, createdAt |-> t, lastAccessed |-> t] : d \in Dids }
    \cup { [did |-> "did:a", createdAt |-> 0, lastAccessed |-> 0] }

\* MobileTokenData a caller passes to sealToken
TokenPayloads == { [did |-> d] : d \in {"", "did:a"} }

\* setCookie.split(";")[0] : the name=value pair of a Set-Cookie header
NameValuePair(header) == Split(header, C(";"))[1]

\* what a client presents for an issued item: the pair of a header, or the
\* token as the value of the manager's cookie
PresentedPair(m, item) ==
    IF item.op = "sealToken" THEN m.cookieName \o <<C("=")>> \o item.text
    ELSE NameValuePair(item.text)

\* the same pair after the envelope was tampered with in transit
TamperedPair(m, item) ==
    LET p == PresentedPair(m, item)
    IN  [i \in 1..Len(p) |->
            IF p[i].ch = "sealed" THEN [p[i] EXCEPT !.mac = "bad"] ELSE p[i]]

\* a pair whose envelope was sealed under another secret
ForeignPair(m) ==
    m.cookieName \o <<C("=")>>
    \o encodeURIComponent(
         sealData([did |-> "did:a", createdAt |-> 0, lastAccessed |-> 0],
                  OtherSecret, m.sessionTtl, 0, FALSE).value)

\* pairs with other names; the second name ends with the cookie name
UnrelatedPairs(m) ==
    { Str(<<"o", "=", "v">>), <<C("x")>> \o m.cookieName \o Str(<<"=", "v">>) }

\* pairs under the cookie name that no seal produced: empty value, garbage,
\* malformed percent-encoding
JunkPairs(m) ==
    { m.cookieName \o <<C("=")>> \o v : v \in {<<>>, Str(<<"v">>), Str(<<"%">>)} }

Pairs(m, issued) ==
    UnrelatedPairs(m) \cup JunkPairs(m) \cup {ForeignPair(m)}
    \cup { PresentedPair(m, item) : item \in issued }
    \cup { TamperedPair(m, item) : item \in issued }

\* the tokens a client holds, and one no seal produced
Tokens(issued) ==
    { item.text : item \in { i \in issued : i.op = "sealToken" } } \cup {Str(<<"v">>)}

\* Authorization header values: Bearer with a token, and another scheme
AuthHeaders(issued) ==
    { BearerPrefix \o token : token \in Tokens(issued) }
    \cup {Str(<<"B", "a", "s", "i", "c", " ", "v">>)}

\* pairs joined by "; " into a Cookie header
RECURSIVE Join(_)
Join(ps) ==
    IF Len(ps) = 1 THEN ps[1]
    ELSE ps[1] \o <<C(";"), C(" ")>> \o Join(Tail(ps))

NoCookieHeader == [present |-> FALSE]

Request(cookie) == [present |-> TRUE, cookie |-> cookie]

\* the requests with a Cookie header of 1..n pairs out of `pairs`, and the
\* request without one
RequestsOf(pairs, n) ==
    {NoCookieHeader}
    \cup { Request(Join(ps)) : ps \in UNION { [1..k -> pairs] : k \in 1..n } }

\* the longest Cookie header of the browser requests, in pairs
MaxPairs == 3

\* what a browser sends: cookies of other names and the session cookies it
\* was set
BrowserPairs(m, issued) ==
    UnrelatedPairs(m)
    \cup { PresentedPair(m, item) : item \in { i \in issued : i.op = "createSession" } }

\* requests whose Cookie header is 1..MaxPairs pairs a browser sends
BrowserRequests(m, issued) == RequestsOf(BrowserPairs(m, issued), MaxPairs)

\* pairs under the cookie name that no seal produced: a stale value, and a
\* value that contains "=", followed by a space
StalePairs(m) ==
    { m.cookieName \o Str(<<"=", "v">>),
      m.cookieName \o Str(<<"=", "v", "=", "v", " ">>) }

\* what a browser with duplicate cookies sends: the session cookies it was
\* set, stale cookies of the same name, and a cookie of another name
DuplicatePairs(m, issued) ==
    {Str(<<"o", "=", "v">>)} \cup StalePairs(m)
    \cup { PresentedPair(m, item) : item \in { i \in issued : i.op = "createSession" } }

\* requests whose Cookie header is 1..MaxPairs of these pairs
DuplicateRequests(m, issued) == RequestsOf(DuplicatePairs(m, issued), MaxPairs)

\* requests whose Cookie header is a single pair
Requests(m, issued) == RequestsOf(Pairs(m, issued), 1)

----------------------------------------------------------------------------
(* State machine *)

\* the callers whose calls may be in flight at the same time
Callers == {"a", "b"}

\* a caller that has no call in flight
NotCalling == [pc |-> "idle"]

Issued(op, text, data, t) == [op |-> op, text |-> text, data |-> data, at |-> t]

\* the client keeps an issued header or token while it has room
Keep(item) == IF Cardinality(jar) < MaxIssued THEN jar \cup {item} ELSE jar

Init ==
    /\ manager = NoManager
    /\ ctor = [outcome |-> "none"]
    /\ now = 0
    /\ jar = {}
    /\ last = [op |-> "none"]
    /\ inflight = [p \in Callers |-> NotCalling]

\* the caller is between two calls
Idle == last.op = "none"

\* new SessionManager(config)
Construct(config) ==
    /\ Idle
    /\ ~manager.exists
    /\ LET made == constructor(config)
       IN  /\ ctor' = [outcome |-> made.kind, config |-> config, completion |-> made]
           /\ manager' = IF Threw(made) THEN NoManager ELSE made.value
    /\ UNCHANGED <<now, jar, last, inflight>>

\* the wall clock advances
Tick ==
    /\ Idle
    /\ \E t \in ClockReadings : t > now /\ now' = t
    /\ UNCHANGED <<manager, ctor, jar, last, inflight>>

\* await manager.createSession(data)
CreateSession(data, sealFails) ==
    /\ Idle
    /\ manager.exists
    /\ LET run == createSession(manager, data, now, sealFails)
       IN  /\ last' = [op |-> "createSession", data |-> data, at |-> now,
                       completion |-> run.completion, calls |-> run.calls]
           /\ jar' = IF Threw(run.completion) THEN jar
                     ELSE Keep(Issued("createSession", run.completion.value, data, now))
    /\ UNCHANGED <<manager, ctor, now, inflight>>

\* await manager.sealToken(data)
SealToken(data, sealFails) ==
    /\ Idle
    /\ manager.exists
    /\ LET run == sealToken(manager, data, now, sealFails)
       IN  /\ last' = [op |-> "sealToken", data |-> data, at |-> now,
                       completion |-> run.completion, calls |-> run.calls]
           /\ jar' = IF Threw(run.completion) THEN jar
                     ELSE Keep(Issued("sealToken", run.completion.value, data, now))
    /\ UNCHANGED <<manager, ctor, now, inflight>>

\* manager.getClearCookieHeader()
GetClearCookieHeader ==
    /\ Idle
    /\ manager.exists
    /\ last' = [op |-> "getClearCookieHeader", at |-> now,
                completion |-> Return(getClearCookieHeader(manager)), calls |-> <<>>]
    /\ jar' = Keep(Issued("getClearCookieHeader", getClearCookieHeader(manager), Null, now))
    /\ UNCHANGED <<manager, ctor, now, inflight>>

\* await manager.getSessionFromRequest(req)
GetSessionFromRequest(req, reject, sealFails) ==
    /\ Idle
    /\ manager.exists
    /\ LET run == getSessionFromRequest(manager, req, now, reject, sealFails)
           result == run.completion.value
       IN  /\ last' = [op |-> "getSessionFromRequest", req |-> req, at |-> now,
                       completion |-> run.completion, calls |-> run.calls]
           /\ jar' = IF ~Threw(run.completion) /\ Has(result, "setCookieHeader")
                     THEN Keep(Issued("renewal", result.setCookieHeader, result.data, now))
                     ELSE jar
    /\ UNCHANGED <<manager, ctor, now, inflight>>

\* await manager.unsealToken(token)
UnsealToken(token, reject) ==
    /\ Idle
    /\ manager.exists
    /\ LET run == unsealToken(manager, token, now, reject)
       IN  last' = [op |-> "unsealToken", token |-> token, at |-> now,
                    completion |-> run.completion, calls |-> run.calls]
    /\ UNCHANGED <<manager, ctor, now, jar, inflight>>

\* await manager.validateBearerToken(authHeader)
ValidateBearerToken(authHeader, reject) ==
    /\ Idle
    /\ manager.exists
    /\ LET run == validateBearerToken(manager, authHeader, now, reject)
       IN  last' = [op |-> "validateBearerToken", authHeader |-> authHeader,
                    at |-> now, completion |-> run.completion, calls |-> run.calls]
    /\ UNCHANGED <<manager, ctor, now, jar, inflight>>

\* await manager.refreshBearerToken(authHeader)
RefreshBearerToken(authHeader, reject, sealFails) ==
    /\ Idle
    /\ manager.exists
    /\ LET run == refreshBearerToken(manager, authHeader, now, reject, sealFails)
       IN  last' = [op |-> "refreshBearerToken", authHeader |-> authHeader,
                    at |-> now, completion |-> run.completion, calls |-> run.calls]
    /\ UNCHANGED <<manager, ctor, now, jar, inflight>>

\* the caller has taken the result of its call
Resume ==
    /\ ~Idle
    /\ last' = [op |-> "none"]
    /\ UNCHANGED <<manager, ctor, now, jar, inflight>>

\* one step, with the sealing primitive failing to seal as `sealFaults` allows
Step(sealFaults) ==
    \/ \E config \in Configs : Construct(config)
    \/ Tick
    \/ \E data \in SessionPayloads(now), sealFails \in sealFaults :
          CreateSession(data, sealFails)
    \/ \E data \in TokenPayloads, sealFails \in sealFaults : SealToken(data, sealFails)
    \/ GetClearCookieHeader
    \/ \E token \in Tokens(jar), reject \in RejectModes : UnsealToken(token, reject)
    \/ \E authHeader \in AuthHeaders(jar), reject \in RejectModes :
          ValidateBearerToken(authHeader, reject)
    \/ \E authHeader \in AuthHeaders(jar), reject \in RejectModes,
          sealFails \in sealFaults :
          RefreshBearerToken(authHeader, reject, sealFails)
    \/ Resume
    \/ /\ manager.exists
       /\ Idle
       /\ \E req \in Requests(manager, jar), reject \in RejectModes,
             sealFails \in sealFaults :
             GetSessionFromRequest(req, reject, sealFails)

\* every behaviour of the sealing primitive, failures of sealData included
Next == Step(BOOLEAN)

Spec == Init /\ [][Next]_vars

\* the sealing primitive seals whenever it is asked to
NextReliable == Step({FALSE})

SpecReliable == Init /\ [][NextReliable]_vars

\* a browser session: one login, then requests that carry the session cookie
\* among other cookies, in any order
NextBrowser ==
    \/ \E config \in Configs : Construct(config)
    \/ Tick
    \/ /\ jar = {}
       /\ \E data \in SessionPayloads(now) : CreateSession(data, FALSE)
    \/ Resume
    \/ /\ manager.exists
       /\ Idle
       /\ \E req \in BrowserRequests(manager, jar), reject \in RejectModes :
             GetSessionFromRequest(req, reject, FALSE)

SpecBrowser == Init /\ [][NextBrowser]_vars

\* a browser session in which stale cookies of the session cookie's name
\* travel with the session cookie
NextDuplicates ==
    \/ \E config \in Configs : Construct(config)
    \/ Tick
    \/ /\ jar = {}
       /\ \E data \in SessionPayloads(now) : CreateSession(data, FALSE)
    \/ Resume
    \/ /\ manager.exists
       /\ Idle
       /\ \E req \in DuplicateRequests(manager, jar), reject \in RejectModes :
             GetSessionFromRequest(req, reject, FALSE)

SpecDuplicates == Init /\ [][NextDuplicates]_vars

\* the requests of concurrent callers: without Cookie header, with a cookie
\* no seal produced, with the session cookie of the login
ConcurrentRequests(m, issued) ==
    {NoCookieHeader}
    \cup { Request(pair) :
             pair \in {m.cookieName \o Str(<<"=", "v">>)}
                 \cup { PresentedPair(m, item) :
                          item \in { i \in issued : i.op = "createSession" } } }

\* a call that has returned to its caller
Done(op, arg, t, reject, sealFails, completion) ==
    [pc |-> "done", op |-> op, arg |-> arg, at |-> t, reject |-> reject,
     sealFails |-> sealFails, completion |-> completion]

\* the outer catch of getSessionFromRequest
Caught(completion) ==
    IF Threw(completion)
    THEN Return(SessionErrorDetails("UNKNOWN", completion.error.message, completion.error))
    ELSE completion

\* getSessionFromRequest(req) up to its first await: it returns at once when
\* it calls no primitive, otherwise it waits for unsealData
BeginGetSessionFromRequest(p, req) ==
    /\ Idle
    /\ manager.exists
    /\ inflight[p] = NotCalling
    /\ LET run == getSessionFromRequest(manager, req, now, "empty", FALSE)
       IN  inflight' = [inflight EXCEPT ![p] =
               IF run.calls = <<>>
               THEN Done("getSessionFromRequest", req, now, "empty", FALSE, run.completion)
               ELSE [pc |-> "unsealData", op |-> "getSessionFromRequest", arg |-> req,
                     sessionCookie |-> SessionCookie(manager, req).value]]
    /\ UNCHANGED <<manager, ctor, now, jar, last>>

\* unsealData settles and getSessionFromRequest runs on to its next await,
\* the sealData of createSession, or to its return
SettleUnsealData(p, reject) ==
    /\ Idle
    /\ inflight[p].pc = "unsealData"
    /\ LET call == inflight[p]
           body == Unseal(manager, call.sessionCookie, now, reject, FALSE)
           sealing == { i \in 1..Len(body.calls) : body.calls[i].fn = "sealData" }
       IN  inflight' = [inflight EXCEPT ![p] =
               IF sealing = {}
               THEN Done(call.op, call.arg, now, reject, FALSE, Caught(body.completion))
               ELSE [pc |-> "sealData", op |-> call.op, arg |-> call.arg, at |-> now,
                     data |-> body.calls[CHOOSE i \in sealing : TRUE].arg.data]]
    /\ UNCHANGED <<manager, ctor, now, jar, last>>

\* createSession(data) up to its await of sealData
BeginCreateSession(p, data) ==
    /\ Idle
    /\ manager.exists
    /\ inflight[p] = NotCalling
    /\ inflight' = [inflight EXCEPT ![p] =
           [pc |-> "sealData", op |-> "createSession", arg |-> data, data |-> data]]
    /\ UNCHANGED <<manager, ctor, now, jar, last>>

\* sealToken(data) up to its await of sealData
BeginSealToken(p, data) ==
    /\ Idle
    /\ manager.exists
    /\ inflight[p] = NotCalling
    /\ inflight' = [inflight EXCEPT ![p] =
           [pc |-> "sealData", op |-> "sealToken", arg |-> data, data |-> data]]
    /\ UNCHANGED <<manager, ctor, now, jar, last>>

\* SettleSealData as it would be if the payload to seal were kept in a field
\* of the manager, which a second call overwrites
SettleSealDataSharedField(p, sealFails) ==
    /\ Idle
    /\ inflight[p].pc = "sealData"
    /\ LET call == inflight[p]
           data == IF \E q \in Callers \ {p} : inflight[q].pc = "sealData"
                   THEN inflight[CHOOSE q \in Callers \ {p} :
                                     inflight[q].pc = "sealData"].data
                   ELSE call.data
           created == createSession(manager, data, now, sealFails)
           token == sealToken(manager, data, now, sealFails)
       IN  inflight' = [inflight EXCEPT ![p] =
               IF call.op = "getSessionFromRequest"
               THEN Done(call.op, call.arg, call.at, "empty", sealFails,
                         IF Threw(created.completion) THEN Caught(created.completion)
                         ELSE Return([data |-> data,
                                      setCookieHeader |-> created.completion.value]))
               ELSE IF call.op = "createSession"
               THEN Done(call.op, call.arg, now, "empty", sealFails, created.completion)
               ELSE Done(call.op, call.arg, now, "empty", sealFails, token.completion)]
    /\ UNCHANGED <<manager, ctor, now, jar, last>>

\* sealData settles and the call returns: getSessionFromRequest with the
\* refreshed data and the header, createSession with the header, sealToken
\* with the token
SettleSealData(p, sealFails) ==
    /\ Idle
    /\ inflight[p].pc = "sealData"
    /\ LET call == inflight[p]
           data == call.data
           created == createSession(manager, data, now, sealFails)
           token == sealToken(manager, data, now, sealFails)
       IN  inflight' = [inflight EXCEPT ![p] =
               IF call.op = "getSessionFromRequest"
               THEN Done(call.op, call.arg, call.at, "empty", sealFails,
                         IF Threw(created.completion) THEN Caught(created.completion)
                         ELSE Return([data |-> data,
                                      setCookieHeader |-> created.completion.value]))
               ELSE IF call.op = "createSession"
               THEN Done(call.op, call.arg, now, "empty", sealFails, created.completion)
               ELSE Done(call.op, call.arg, now, "empty", sealFails, token.completion)]
    /\ UNCHANGED <<manager, ctor, now, jar, last>>

\* manager.getClearCookieHeader(), which does not await
CallGetClearCookieHeader(p) ==
    /\ Idle
    /\ manager.exists
    /\ inflight[p] = NotCalling
    /\ inflight' = [inflight EXCEPT ![p] =
           Done("getClearCookieHeader", Null, now, "empty", FALSE,
                Return(getClearCookieHeader(manager)))]
    /\ UNCHANGED <<manager, ctor, now, jar, last>>

\* the caller takes the result of its call
Collect(p) ==
    /\ inflight[p].pc = "done"
    /\ inflight' = [inflight EXCEPT ![p] = NotCalling]
    /\ UNCHANGED <<manager, ctor, now, jar, last>>

\* one login, then calls of the callers in flight at the same time, their
\* steps interleaved with each other and with the clock
NextConcurrent ==
    \/ \E config \in Configs : Construct(config)
    \/ Tick
    \/ /\ jar = {}
       /\ \E data \in SessionPayloads(now) : CreateSession(data, FALSE)
    \/ Resume
    \/ /\ manager.exists
       /\ \E p \in Callers, req \in ConcurrentRequests(manager, jar) :
             BeginGetSessionFromRequest(p, req)
    \/ \E p \in Callers, reject \in RejectModes : SettleUnsealData(p, reject)
    \/ \E p \in Callers :
          BeginCreateSession(p, [did |-> "did:b", createdAt |-> now, lastAccessed |-> now])
    \/ \E p \in Callers : BeginSealToken(p, [did |-> "did:a"])
    \/ \E p \in Callers, sealFails \in BOOLEAN : SettleSealData(p, sealFails)
    \/ \E p \in Callers : CallGetClearCookieHeader(p)
    \/ \E p \in Callers : Collect(p)

SpecConcurrent == Init /\ [][NextConcurrent]_vars

----------------------------------------------------------------------------
(* Properties *)

IsGet == last.op = "getSessionFromRequest"

\* the SessionResult the last getSessionFromRequest returned
Result == last.completion.value

Returned == IsGet /\ ~Threw(last.completion)

Succeeded == Returned /\ Result.data # Null

Failed(type) == Returned /\ Has(Result, "error") /\ Result.error.type = type

NoRenewal == ~Has(Result, "setCookieHeader")

\* the calls of collaborator fn the last operation made
CallsOf(fn) == { i \in 1..Len(last.calls) : last.calls[i].fn = fn }

UnsealReturned(i) ==
    /\ i \in CallsOf("unsealData")
    /\ ~Threw(last.calls[i].completion)

UnsealThrew(i) ==
    /\ i \in CallsOf("unsealData")
    /\ Threw(last.calls[i].completion)

SealThrew == \E i \in CallsOf("sealData") : Threw(last.calls[i].completion)

\* a decoded structure without identity
LacksDid(v) == "did" \notin DOMAIN v \/ v.did = ""

\* the last request presented exactly the pair of the issued item
Presented(item) == IsGet /\ last.req = Request(PresentedPair(manager, item))

\* the time at which the envelope of an issued header expires
ExpiryOf(item) == item.at + manager.sessionTtl * MsPerSecond

WithinTtl(item) == last.at < ExpiryOf(item)

\* C1: every result of getSessionFromRequest has one of two shapes: data
\* with a renewal header and no error, or null data with an error and no
\* renewal header.
C1_TwoShapes ==
    IsGet =>
        /\ Returned
        /\ \/ /\ Result.data # Null
              /\ Has(Result, "setCookieHeader")
              /\ ~Has(Result, "error")
           \/ /\ Result.data = Null
              /\ ~Has(Result, "setCookieHeader")
              /\ Has(Result, "error")

\* a validation that returned data together with its renewal header
C1_Witness ==
    /\ Succeeded
    /\ Has(Result, "setCookieHeader")
    /\ CallsOf("sealData") # {}

\* C2: the pair of a header createSession returned for a payload P with a
\* non-empty did, presented within the TTL, validates to data with P's did
\* and P's createdAt.
C2_RoundTrip ==
    \A item \in jar :
        (/\ item.op = "createSession"
         /\ item.data.did # ""
         /\ Presented(item)
         /\ WithinTtl(item))
        => /\ Succeeded
           /\ Result.data.did = item.data.did
           /\ Result.data.createdAt = item.data.createdAt

\* a created session validated at a later clock reading than its createdAt
C2_Witness ==
    \E item \in jar :
        /\ item.op = "createSession"
        /\ item.data.did # ""
        /\ Presented(item)
        /\ WithinTtl(item)
        /\ Succeeded
        /\ last.at > item.data.createdAt

\* the payload the presented envelope was sealed with
Stored == last.calls[1].completion.value

\* C3 as stated: after a successful validation the returned lastAccessed
\* strictly exceeds the stored one and createdAt is the stored createdAt.
C3_StrictlyLater ==
    Succeeded =>
        /\ Result.data.lastAccessed > Stored.lastAccessed
        /\ Result.data.createdAt = Stored.createdAt

\* C3: after a successful validation the returned lastAccessed is the clock
\* reading of the validation and createdAt is the stored createdAt.
C3_AccessTimeIsNow ==
    Succeeded =>
        /\ Result.data.lastAccessed = last.at
        /\ Result.data.createdAt = Stored.createdAt

\* a successful validation in the millisecond the envelope was sealed in
C3_Witness ==
    /\ Succeeded
    /\ Stored.lastAccessed = last.at
    /\ Result.data.lastAccessed = Stored.lastAccessed

\* C4 as stated: validating the pair of any header createSession returned,
\* within the TTL, never gives NO_COOKIE or INVALID_COOKIE.
C4_AnyCreated ==
    \A item \in jar :
        (item.op = "createSession" /\ Presented(item) /\ WithinTtl(item))
        => ~Failed("NO_COOKIE") /\ ~Failed("INVALID_COOKIE")

\* C4: validating the pair of a header createSession returned for a payload
\* with a non-empty did, within the TTL, never gives NO_COOKIE or
\* INVALID_COOKIE.
C4_CreatedWithDid ==
    \A item \in jar :
        (/\ item.op = "createSession"
         /\ item.data.did # ""
         /\ Presented(item)
         /\ WithinTtl(item))
        => ~Failed("NO_COOKIE") /\ ~Failed("INVALID_COOKIE")

\* a just-created session cookie was validated, in the millisecond of its
\* creation
C4_Witness ==
    \E item \in jar :
        /\ item.op = "createSession"
        /\ item.data.did # ""
        /\ Presented(item)
        /\ last.at = item.at
        /\ Returned

\* C5: a request without Cookie header gets NO_COOKIE with null data, and
\* neither unseal nor seal is called.
C5_NoHeader ==
    (IsGet /\ ~last.req.present) =>
        /\ Failed("NO_COOKIE")
        /\ Result.data = Null
        /\ last.calls = <<>>

C5_Witness == IsGet /\ ~last.req.present /\ Returned

\* the name of a pair: what precedes its first "=", the whole pair if none
PairName(pair) ==
    LET i == IndexOf(pair, C("="), 1)
    IN  IF i = 0 THEN pair ELSE SubSeq(pair, 1, i - 1)

PairNames(cookie) ==
    LET pairs == MapTrim(Split(cookie, C(";")))
    IN  { PairName(pairs[i]) : i \in 1..Len(pairs) }

\* C6: a Cookie header in which no pair is named by the cookie name gets
\* NO_COOKIE.
C6_UnrelatedNames ==
    (IsGet /\ last.req.present /\ manager.cookieName \notin PairNames(last.req.cookie))
        => Failed("NO_COOKIE")

\* C7: when unseal returns a structure without a did, the result is
\* INVALID_COOKIE with null data and no renewal header.
C7_NoIdentity ==
    IsGet =>
        \A i \in 1..Len(last.calls) :
            (UnsealReturned(i) /\ LacksDid(last.calls[i].completion.value))
            => /\ Failed("INVALID_COOKIE")
               /\ Result.data = Null
               /\ NoRenewal

\* garbage text under the cookie name, for which unseal returned {}
C7_Witness ==
    /\ IsGet
    /\ last.req = Request(manager.cookieName \o Str(<<"=", "v">>))
    /\ UnsealReturned(1)
    /\ last.calls[1].completion.value = EmptyStructure

\* C8: when unseal fails, the result is SESSION_EXPIRED with null data, the
\* failure's message in details, and no renewal header.
C8_UnsealFails ==
    IsGet =>
        \A i \in 1..Len(last.calls) :
            UnsealThrew(i)
            => /\ Failed("SESSION_EXPIRED")
               /\ Result.data = Null
               /\ Has(Result.error, "details")
               /\ Result.error.details = last.calls[i].completion.error.message
               /\ NoRenewal

\* an issued session cookie presented after its TTL, on which unseal threw
C8_Witness ==
    \E item \in jar :
        /\ item.op = "createSession"
        /\ Presented(item)
        /\ ~WithinTtl(item)
        /\ UnsealThrew(1)

\* a failure the handler has no class for: sealData threw during the
\* refresh, or the log line threw on a payload without createdAt
Unclassified ==
    \/ SealThrew
    \/ \E i \in 1..Len(last.calls) :
          /\ UnsealReturned(i)
          /\ ~LacksDid(last.calls[i].completion.value)
          /\ "createdAt" \notin DOMAIN last.calls[i].completion.value

\* C9: getSessionFromRequest never throws; a failure that is none of
\* NO_COOKIE, INVALID_COOKIE, SESSION_EXPIRED comes back as UNKNOWN with
\* null data.
C9_NeverThrows ==
    IsGet =>
        /\ Returned
        /\ Has(Result, "data")
        /\ Unclassified => (Failed("UNKNOWN") /\ Result.data = Null)
        /\ Result.data = Null =>
              Result.error.type \in {"NO_COOKIE", "INVALID_COOKIE", "SESSION_EXPIRED", "UNKNOWN"}

\* sealData failed during the refresh of a valid session
C9_Witness == IsGet /\ SealThrew /\ UnsealReturned(1)

\* what the constructor was given as secret: absent, empty or too short
BadSecret(config) ==
    \/ "cookieSecret" \notin DOMAIN config
    \/ Len(config.cookieSecret) < MIN_SECRET_LENGTH

\* C10: construction fails, with ConfigurationError, exactly when the
\* secret is absent, empty or shorter than 32 characters; after a failed
\* construction there is no manager and no operation has run.
C10_Construction ==
    /\ ctor.outcome # "none" =>
          /\ (ctor.outcome = "throw") <=> BadSecret(ctor.config)
          /\ ctor.outcome = "throw" =>
                /\ ctor.completion.error.name = "ConfigurationError"
                /\ manager = NoManager
                /\ last.op = "none"
          /\ ctor.outcome = "return" =>
                /\ manager.exists
                /\ manager.cookieSecret = ctor.config.cookieSecret
    /\ manager.exists <=> ctor.outcome = "return"
    /\ last.op # "none" => manager.exists

\* a 31-character secret was refused
C10_Witness ==
    /\ ctor.outcome = "throw"
    /\ "cookieSecret" \in DOMAIN ctor.config
    /\ Len(ctor.config.cookieSecret) = MIN_SECRET_LENGTH - 1
    /\ manager = NoManager

\* the text "; Path=/; HttpOnly; SameSite=Lax; Secure; Max-Age=<seconds>"
CookieAttributes(seconds) ==
    <<C(";"), C(" "), C("Path=/"), C(";"), C(" "), C("HttpOnly"),
      C(";"), C(" "), C("SameSite=Lax"), C(";"), C(" "), C("Secure"),
      C(";"), C(" "), C("Max-Age="), Number(seconds)>>

\* header is <cookieName>=<urlEncodedSealedEnvelope> followed by the cookie
\* attributes with Max-Age the configured TTL, the envelope being the one the
\* i-th call sealed, with the configured TTL, at time last.at
SessionCookieHeader(header, i) ==
    LET sealing == last.calls[i]
        envelope == sealing.completion.value
    IN  /\ sealing.fn = "sealData"
        /\ Has(sealing.arg, "ttl")
        /\ sealing.arg.ttl = manager.sessionTtl
        /\ envelope[Len(envelope)].exp = last.at + manager.sessionTtl * MsPerSecond
        /\ envelope[Len(envelope)].password = manager.cookieSecret
        /\ header = manager.cookieName \o <<C("=")>>
                       \o encodeURIComponent(envelope)
                       \o CookieAttributes(manager.sessionTtl)

\* C11: every header createSession returns and every renewal header
\* getSessionFromRequest returns is <cookieName>=<urlEncodedSealedEnvelope>;
\* Path=/; HttpOnly; SameSite=Lax; Secure; Max-Age=<ttl>, with ttl the
\* configured TTL (the full TTL on every refresh) and the envelope sealed
\* with that same TTL.
C11_HeaderForm ==
    /\ (last.op = "createSession" /\ ~Threw(last.completion))
          => SessionCookieHeader(last.completion.value, 1)
    /\ (Returned /\ Has(Result, "setCookieHeader"))
          => SessionCookieHeader(Result.setCookieHeader, Len(last.calls))

\* a renewal issued after the presented envelope was sealed, under a
\* configured TTL: its envelope expires later than the presented one
C11_Witness ==
    \E item \in jar :
        /\ Presented(item)
        /\ item.op = "createSession"
        /\ Succeeded
        /\ manager.sessionTtl = ShortTtl
        /\ last.at > item.at
        /\ LET renewed == last.calls[Len(last.calls)].completion.value
           IN  renewed[Len(renewed)].exp > ExpiryOf(item)

\* C12: getClearCookieHeader always returns exactly <cookieName>=; Path=/;
\* HttpOnly; SameSite=Lax; Secure; Max-Age=0, whatever operations came
\* before, and calls neither sealData nor unsealData.
C12_ClearHeader ==
    last.op = "getClearCookieHeader" =>
        /\ last.completion =
              Return(manager.cookieName \o <<C("=")>> \o CookieAttributes(0))
        /\ last.calls = <<>>

\* the clearing header of a manager with a configured cookie name, asked
\* for after sessions were issued
C12_Witness ==
    /\ last.op = "getClearCookieHeader"
    /\ manager.cookieName # DEFAULT_COOKIE_NAME
    /\ \E item \in jar : item.op = "renewal"
    /\ StartsWith(last.completion.value, manager.cookieName \o <<C("="), C(";")>>)

\* C14 as stated: a token sealToken returned for a non-empty did, presented
\* within the TTL as the value of the configured cookie, is accepted: the
\* result carries that did and a renewal header and no error.
C14_TokenAccepted ==
    \A item \in jar :
        (/\ item.op = "sealToken"
         /\ item.data.did # ""
         /\ Presented(item)
         /\ WithinTtl(item))
        => /\ Succeeded
           /\ Result.data.did = item.data.did
           /\ Has(Result, "setCookieHeader")
           /\ ~Has(Result, "error")

\* C15 as stated: the envelope sealToken returns has the shape of the one
\* createSession seals: its payload carries the did and createdAt and
\* lastAccessed, both the time of sealing, and it is sealed with the
\* configured secret and the configured session TTL.
C15_TokenShape ==
    (last.op = "sealToken" /\ ~Threw(last.completion)) =>
        LET envelope == last.completion.value[Len(last.completion.value)]
        IN  /\ envelope.password = manager.cookieSecret
            /\ envelope.exp = last.at + manager.sessionTtl * MsPerSecond
            /\ Has(envelope.data, "did")
            /\ envelope.data.did = last.data.did
            /\ Has(envelope.data, "createdAt")
            /\ Has(envelope.data, "lastAccessed")
            /\ envelope.data.createdAt = last.at
            /\ envelope.data.lastAccessed = last.at

\* C16 as stated: an envelope that unseals to a payload with a did and no
\* createdAt validates, with createdAt and lastAccessed both the current
\* time; a createdAt that is present is returned unchanged.
C16_LegacyFallback ==
    \A i \in (IF IsGet THEN 1..Len(last.calls) ELSE {}) :
        (UnsealReturned(i) /\ ~LacksDid(last.calls[i].completion.value)) =>
            /\ Succeeded
            /\ IF Has(last.calls[i].completion.value, "createdAt")
               THEN Result.data.createdAt = last.calls[i].completion.value.createdAt
               ELSE /\ Result.data.createdAt = last.at
                    /\ Result.data.lastAccessed = last.at

\* C17: a renewal header is itself a valid session cookie: presented within
\* the TTL of its own issuance it validates again, to the did and createdAt
\* of the validation that issued it and a lastAccessed that is not earlier,
\* and that validation issues the next renewal header of the chain.
C17_SlidingWindow ==
    \A item \in jar :
        (/\ item.op = "renewal"
         /\ Presented(item)
         /\ WithinTtl(item))
        => /\ Succeeded
           /\ Has(Result, "setCookieHeader")
           /\ Result.data.did = item.data.did
           /\ Result.data.createdAt = item.data.createdAt
           /\ Result.data.lastAccessed >= item.data.lastAccessed

\* a renewal validated when the envelope it renewed has already expired
C17_Witness ==
    \E first \in jar, item \in jar :
        /\ first.op = "createSession"
        /\ item.op = "renewal"
        /\ item.data.did = first.data.did
        /\ item.data.createdAt = first.data.createdAt
        /\ first.at < item.at
        /\ item.at < ExpiryOf(first)
        /\ Presented(item)
        /\ last.at >= ExpiryOf(first)
        /\ Succeeded

\* a clearing header was issued at or after the issuance of the item
Cleared(item) ==
    \E c \in jar : c.op = "getClearCookieHeader" /\ c.at >= item.at

\* a renewal for the session of the item was issued after the item
Superseded(item) ==
    \E r \in jar :
        /\ r.op = "renewal"
        /\ r # item
        /\ r.at >= item.at
        /\ r.data.did = item.data.did
        /\ r.data.createdAt = item.data.createdAt

\* C19: there is no server-side invalidation: an envelope issued earlier
\* still validates when presented within its own TTL after
\* getClearCookieHeader was called and after a renewal superseded it.
C19_NoInvalidation ==
    \A item \in jar :
        (/\ item.op \in {"createSession", "renewal"}
         /\ item.data.did # ""
         /\ Cleared(item) \/ Superseded(item)
         /\ Presented(item)
         /\ WithinTtl(item))
        => /\ Succeeded
           /\ Result.data.did = item.data.did
           /\ Result.data.createdAt = item.data.createdAt

\* a session validated at a later clock reading than the clearing header
\* that was issued after it
C19_Witness ==
    \E item \in jar :
        /\ item.op = "createSession"
        /\ item.data.did # ""
        /\ Presented(item)
        /\ Succeeded
        /\ \E c \in jar :
              /\ c.op = "getClearCookieHeader"
              /\ c.at > item.at
              /\ last.at > c.at

\* a session validated again after a renewal superseded its envelope
C19_SupersededWitness ==
    \E item \in jar :
        /\ item.op = "createSession"
        /\ Presented(item)
        /\ Succeeded
        /\ Superseded(item)
        /\ jar \ {item} # {}
        /\ \A r \in jar \ {item} : r.op = "renewal" /\ r.at > item.at /\ last.at > r.at

\* the kinds of error the cookie path reports
CookieErrorTypes == {"NO_COOKIE", "INVALID_COOKIE", "SESSION_EXPIRED", "UNKNOWN"}

\* the last operation returned a result that carries an error
ReturnedError ==
    /\ last.op \in {"getSessionFromRequest", "validateBearerToken"}
    /\ ~Threw(last.completion)
    /\ Has(last.completion.value, "error")

\* C20 as stated: every error a public operation produces has one of the
\* kinds NO_COOKIE, INVALID_COOKIE, SESSION_EXPIRED, UNKNOWN, never
\* INVALID_TOKEN, and no operation other than getSessionFromRequest unseals
\* a token.
C20_SinglePath ==
    /\ ReturnedError => last.completion.value.error.type \in CookieErrorTypes
    /\ (last.op \notin {"none", "getSessionFromRequest"})
          => \A i \in 1..Len(last.calls) : last.calls[i].fn # "unsealData"

\* the Cookie header of the last request is the pairs ps joined by "; "
HeaderIs(ps) == IsGet /\ last.req = Request(Join(ps))

\* the pair of the item at position k of ps, every other pair being a cookie
\* of another name
AmongUnrelated(ps, item, k) ==
    /\ ps[k] = PresentedPair(manager, item)
    /\ \A j \in DOMAIN ps \ {k} : ps[j] \in UnrelatedPairs(manager)

\* C13: a valid session cookie presented together with any number of
\* unrelated cookies, at any position among them (first, middle or last),
\* yields the data it yields when presented alone.
C13_PositionIndependent ==
    \A item \in jar :
        (item.op = "createSession" /\ item.data.did # "") =>
            \A n \in 1..MaxPairs :
                \A ps \in [1..n -> BrowserPairs(manager, jar)], k \in 1..n :
                    (HeaderIs(ps) /\ AmongUnrelated(ps, item, k) /\ WithinTtl(item)) =>
                        /\ Succeeded
                        /\ Result.data = [did |-> item.data.did,
                                          createdAt |-> item.data.createdAt,
                                          lastAccessed |-> last.at]

\* a session cookie validated from the middle of a header, between a cookie
\* whose name ends with the session cookie's name and another one
C13_Witness ==
    \E item \in jar :
        \E ps \in [1..MaxPairs -> BrowserPairs(manager, jar)] :
            /\ HeaderIs(ps)
            /\ item.op = "createSession"
            /\ AmongUnrelated(ps, item, 2)
            /\ ps[1] # ps[MaxPairs]
            /\ Succeeded
            /\ last.at > item.at

\* what the call would return if it ran alone, at the clock reading of its
\* call, on the manager as it was constructed
Alone(call) ==
    LET m == ctor.completion.value
    IN  CASE call.op = "getSessionFromRequest" ->
                getSessionFromRequest(m, call.arg, call.at, call.reject,
                                      call.sealFails).completion
          [] call.op = "createSession" ->
                createSession(m, call.arg, call.at, call.sealFails).completion
          [] call.op = "sealToken" ->
                sealToken(m, call.arg, call.at, call.sealFails).completion
          [] OTHER -> Return(getClearCookieHeader(m))

\* the kind of a result, with the did and createdAt of a session
Outcome(op, completion) ==
    IF Threw(completion) THEN [kind |-> "throw"]
    ELSE IF op # "getSessionFromRequest"
    THEN [kind |-> "return", value |-> completion.value]
    ELSE IF completion.value.data = Null
    THEN [kind |-> completion.value.error.type]
    ELSE [kind |-> "session",
          did |-> completion.value.data.did,
          createdAt |-> completion.value.data.createdAt]

\* the time at which the envelope in a header expires
ExpiryIn(header) ==
    header[CHOOSE i \in 1..Len(header) : header[i].ch = "sealed"].exp

\* C18: calls on one manager do not interfere: however the steps of
\* concurrent getSessionFromRequest, createSession, sealToken and
\* getClearCookieHeader calls interleave, each call returns the kind of
\* result, the did and the createdAt it would return if run alone at the
\* same clock reading, and the manager's secret, cookie name and TTL stay as
\* constructed.
C18_NoInterference ==
    /\ manager.exists => manager = ctor.completion.value
    /\ \A p \in Callers :
          inflight[p].pc = "done" =>
              Outcome(inflight[p].op, inflight[p].completion)
                  = Outcome(inflight[p].op, Alone(inflight[p]))

\* two validations of the same cookie in flight together: the one that
\* unsealed first sealed its renewal last
C18_Witness ==
    /\ \A p \in Callers :
          /\ inflight[p].pc = "done"
          /\ inflight[p].op = "getSessionFromRequest"
          /\ inflight[p].completion.value.data # Null
    /\ inflight["a"].arg = inflight["b"].arg
    /\ inflight["a"].at < inflight["b"].at
    /\ ExpiryIn(inflight["a"].completion.value.setCookieHeader)
          > ExpiryIn(inflight["b"].completion.value.setCookieHeader)

\* the manager was constructed from a configuration that names neither the
\* cookie nor the TTL
DefaultsApply ==
    /\ manager.exists
    /\ ~Has(ctor.config, "cookieName")
    /\ ~Has(ctor.config, "sessionTtl")

\* a session cookie header of the defaults: sid=...Max-Age=604800
DefaultHeader(header) ==
    /\ StartsWith(header, <<C("s"), C("i"), C("d"), C("=")>>)
    /\ SubSeq(header, Len(header) - 1, Len(header)) = <<C("Max-Age="), Number(604800)>>

\* C21: a manager whose configuration omits cookieName and sessionTtl uses
\* the cookie name sid and the TTL 604800 s in every operation: session
\* headers start with sid= and end with Max-Age=604800, the clearing header
\* starts with sid=; and getSessionFromRequest unseals only the value of a
\* pair named sid.
C21_Defaults ==
    DefaultsApply =>
        /\ (last.op = "createSession" /\ ~Threw(last.completion))
              => DefaultHeader(last.completion.value)
        /\ (Returned /\ Has(Result, "setCookieHeader"))
              => DefaultHeader(Result.setCookieHeader)
        /\ last.op = "getClearCookieHeader"
              => StartsWith(last.completion.value,
                            <<C("s"), C("i"), C("d"), C("="), C(";")>>)
        /\ IsGet =>
              \A i \in CallsOf("unsealData") :
                  /\ last.req.present
                  /\ StartsWith(last.req.cookie, <<C("s"), C("i"), C("d"), C("=")>>)
                  /\ last.calls[i].arg = Substring(last.req.cookie, 4)

\* a session validated and renewed by a manager of the defaults
C21_Witness ==
    /\ DefaultsApply
    /\ Succeeded
    /\ DefaultHeader(Result.setCookieHeader)
    /\ CallsOf("unsealData") # {}

\* the pair is named exactly as the session cookie
SameNamed(pair) == StartsWith(Trim(pair), manager.cookieName \o <<C("=")>>)

\* everything after the first "=" of the pair, the pair trimmed
ValueOf(pair) == SubSeq(Trim(pair), IndexOf(Trim(pair), C("="), 1) + 1, Len(Trim(pair)))

\* the pair is the session cookie of an issued session that is still valid
ValidPair(pair) ==
    \E item \in jar :
        /\ item.op = "createSession"
        /\ item.data.did # ""
        /\ pair = PresentedPair(manager, item)
        /\ WithinTtl(item)

\* the pieces of the Cookie header of the last request, as sent
Pieces == Split(last.req.cookie, C(";"))

\* the first piece of the session cookie's name is piece k
FirstNamed(k) ==
    /\ k \in 1..Len(Pieces)
    /\ SameNamed(Pieces[k])
    /\ \A j \in 1..(k - 1) : ~SameNamed(Pieces[j])

\* C22: of several pairs named exactly as the session cookie only the first
\* in header order is used: its value alone is unsealed, once, and the call
\* succeeds exactly when that pair is a valid session cookie, whatever the
\* later pairs are.
C22_FirstPairWins ==
    (IsGet /\ last.req.present) =>
        \A k \in 1..Len(Pieces) :
            (/\ FirstNamed(k)
             /\ \E j \in (k + 1)..Len(Pieces) : SameNamed(Pieces[j]))
            => /\ Returned
               /\ CallsOf("unsealData") = {1}
               /\ last.calls[1].arg = ValueOf(Pieces[k])
               /\ Succeeded <=> ValidPair(Trim(Pieces[k]))
               /\ Succeeded =>
                     \E item \in jar :
                         /\ Trim(Pieces[k]) = PresentedPair(manager, item)
                         /\ Result.data.did = item.data.did
                         /\ Result.data.createdAt = item.data.createdAt

\* a stale cookie ahead of a valid session cookie of the same name: the call
\* fails
C22_Witness ==
    /\ IsGet
    /\ last.req.present
    /\ Len(Pieces) = 2
    /\ FirstNamed(1)
    /\ Pieces[1] \in StalePairs(manager)
    /\ ValidPair(Trim(Pieces[2]))
    /\ Returned
    /\ ~Succeeded

\* C23: the value handed to URL-decoding and unsealData is everything after
\* the first "=" of the matching pair, the whitespace around the pair
\* trimmed: a value that contains "=" is passed whole.
C23_WholeValue ==
    (IsGet /\ last.req.present) =>
        \A k \in 1..Len(Pieces) :
            (FirstNamed(k) /\ ValueOf(Pieces[k]) # <<>> /\ ~Malformed(ValueOf(Pieces[k])))
            => /\ CallsOf("unsealData") = {1}
               /\ last.calls[1].arg = DecodeText(ValueOf(Pieces[k]))

\* the value v=v, from a pair with whitespace on both sides, unsealed whole
C23_Witness ==
    /\ IsGet
    /\ last.req.present
    /\ FirstNamed(2)
    /\ IsSpace(Pieces[2][1])
    /\ IsSpace(Pieces[2][Len(Pieces[2])])
    /\ CallsOf("unsealData") = {1}
    /\ last.calls[1].arg = <<C("v"), C("="), C("v")>>

\* the Cookie header contains <cookieName>= somewhere, yet holds no value
\* for the session cookie: no piece starts with <cookieName>=, or the first
\* that does has nothing after the "="
NoUsableValue ==
    /\ IsGet
    /\ last.req.present
    /\ Includes(last.req.cookie, manager.cookieName \o <<C("=")>>)
    /\ \A k \in 1..Len(Pieces) : FirstNamed(k) => ValueOf(Pieces[k]) = <<>>

\* C24: when the header passes the substring pre-check but yields no usable
\* value, getSessionFromRequest returns INVALID_COOKIE with data null and
\* calls neither unsealData nor sealData.
C24_Unparsable ==
    NoUsableValue =>
        /\ Failed("INVALID_COOKIE")
        /\ Result.data = Null
        /\ NoRenewal
        /\ last.calls = <<>>

\* the pair of a clearing header, sent back by the client
C24_Witness ==
    /\ NoUsableValue
    /\ \E item \in jar : item.op = "getClearCookieHeader" /\ Presented(item)
    /\ Failed("INVALID_COOKIE")

\* a header in which only another cookie's name contains <cookieName>=
C24_SubstringWitness ==
    /\ NoUsableValue
    /\ \A k \in 1..Len(Pieces) : ~SameNamed(Pieces[k])
    /\ Failed("INVALID_COOKIE")

\* the header of the last request holds a non-empty value for the session
\* cookie
UsableValue ==
    /\ last.req.present
    /\ \E k \in 1..Len(Pieces) : FirstNamed(k) /\ ValueOf(Pieces[k]) # <<>>

\* C25: within one getSessionFromRequest call unsealData is called at most
\* once, only after a named pair with a non-empty value was found; sealData
\* is called at most once, only after unsealData returned a payload with a
\* did; on the error paths NO_COOKIE, INVALID_COOKIE and SESSION_EXPIRED
\* sealData is not called.
C25_OrderedOnce ==
    IsGet =>
        /\ CallsOf("unsealData") \subseteq {1}
        /\ CallsOf("unsealData") # {} => UsableValue
        /\ CallsOf("sealData") \subseteq {2}
        /\ CallsOf("sealData") # {} =>
              /\ UnsealReturned(1)
              /\ ~LacksDid(last.calls[1].completion.value)
        /\ CallsOf("unsealData") \cup CallsOf("sealData") = 1..Len(last.calls)
        /\ (Failed("NO_COOKIE") \/ Failed("INVALID_COOKIE") \/ Failed("SESSION_EXPIRED"))
              => CallsOf("sealData") = {}

\* a validation that unsealed, then sealed, once each
C25_Witness ==
    /\ Succeeded
    /\ Len(last.calls) = 2
    /\ last.calls[1].fn = "unsealData"
    /\ last.calls[2].fn = "sealData"

\* the text is an intact envelope sealed under the manager's secret
SealedUnderSecret(text) ==
    /\ text # <<>>
    /\ text[Len(text)].ch = "sealed"
    /\ text[Len(text)].password = manager.cookieSecret
    /\ text[Len(text)].mac = "ok"

\* C26: getSessionFromRequest returns data, or a renewal header, only when
\* the presented value unsealed under the manager's secret to a payload
\* with a non-empty did, and the did returned is that payload's; a value
\* that was tampered with, forged or sealed under another secret never
\* yields data or a renewal header.
C26_Authentic ==
    (Returned /\ (Result.data # Null \/ Has(Result, "setCookieHeader"))) =>
        /\ UnsealReturned(1)
        /\ SealedUnderSecret(last.calls[1].arg)
        /\ last.calls[1].completion.value = last.calls[1].arg[Len(last.calls[1].arg)].data
        /\ ~LacksDid(last.calls[1].completion.value)
        /\ Result.data # Null
        /\ Result.data.did = last.calls[1].completion.value.did

\* an envelope sealed under another secret, and refused
C26_Witness ==
    /\ IsGet
    /\ last.req = Request(ForeignPair(manager))
    /\ CallsOf("unsealData") = {1}
    /\ ~SealedUnderSecret(last.calls[1].arg)
    /\ Returned
    /\ Result.data = Null
    /\ NoRenewal

\* an envelope that was tampered with, and refused
C26_TamperedWitness ==
    /\ IsGet
    /\ \E item \in jar :
          /\ item.op = "createSession"
          /\ item.data.did # ""
          /\ last.req = Request(TamperedPair(manager, item))
    /\ Returned
    /\ Result.data = Null
    /\ NoRenewal

\* C27: a failure of sealData inside createSession or sealToken called
\* directly propagates to the caller, who gets no header or token; a
\* failure of sealData in the refresh step of getSessionFromRequest gives
\* data null, error UNKNOWN and no renewal header, although the presented
\* envelope was valid.
C27_SealFailure ==
    /\ (last.op \in {"createSession", "sealToken"} /\ SealThrew)
          => /\ Threw(last.completion)
             /\ last.completion = last.calls[1].completion
    /\ (IsGet /\ SealThrew)
          => /\ Failed("UNKNOWN")
             /\ Result.data = Null
             /\ NoRenewal
             /\ UnsealReturned(1)
             /\ ~LacksDid(last.calls[1].completion.value)

\* a valid session whose renewal could not be sealed
C27_Witness ==
    \E item \in jar :
        /\ item.op = "createSession"
        /\ Presented(item)
        /\ WithinTtl(item)
        /\ SealThrew
        /\ Failed("UNKNOWN")

\* a createSession call that threw what sealData threw
C27_DirectWitness ==
    /\ last.op = "createSession"
    /\ SealThrew
    /\ Threw(last.completion)

\* C28 as stated: whether getSessionFromRequest accepts an envelope depends
\* only on the outcome of unsealData and on the presence of a did, never on
\* createdAt or lastAccessed: an envelope that unseals to a payload with a
\* did is accepted and renewed.
C28_OnlyUnsealAndDid ==
    IsGet =>
        (Succeeded /\ Has(Result, "setCookieHeader"))
            <=> (UnsealReturned(1) /\ ~LacksDid(last.calls[1].completion.value))

\* the part of C28 about age: a payload that carries createdAt is accepted
\* however old createdAt and lastAccessed are
C28_AgeIrrelevant ==
    (IsGet /\ UnsealReturned(1) /\ ~LacksDid(Stored) /\ Has(Stored, "createdAt"))
        => Succeeded /\ Has(Result, "setCookieHeader")

\* a session created a whole TTL ago, accepted and renewed
C28_AgeWitness ==
    /\ Succeeded
    /\ Has(Result, "setCookieHeader")
    /\ last.at - Stored.createdAt >= manager.sessionTtl * MsPerSecond
    /\ last.at - Stored.lastAccessed > 0

\* the value of the session cookie in the last request has a "%" that two
\* hex digits do not follow
UndecodableValue ==
    /\ IsGet
    /\ last.req.present
    /\ \E k \in 1..Len(Pieces) :
          /\ FirstNamed(k)
          /\ \E i \in 1..Len(ValueOf(Pieces[k])) :
                /\ ValueOf(Pieces[k])[i] = C("%")
                /\ \/ i + 2 > Len(ValueOf(Pieces[k]))
                   \/ ~IsHex(ValueOf(Pieces[k])[i + 1])
                   \/ ~IsHex(ValueOf(Pieces[k])[i + 2])

\* C29: a session cookie value that cannot be URL-decoded is classified
\* with the unseal failures: the result is SESSION_EXPIRED with data null,
\* and unsealData is not called.
C29_DecodeFailure ==
    UndecodableValue =>
        /\ Failed("SESSION_EXPIRED")
        /\ Result.data = Null
        /\ NoRenewal
        /\ last.calls = <<>>

\* the cookie value "%"
C29_Witness ==
    /\ UndecodableValue
    /\ last.req = Request(manager.cookieName \o <<C("="), C("%")>>)
    /\ Failed("SESSION_EXPIRED")
    /\ Has(Result.error, "details")

====
